---- MODULE Spec2Model ----
(***************************************************************************)
(* Model of the Cobbl SDK clients: CobblAdminClient (runPrompt) and        *)
(* CobblPublicClient (createFeedback, updateFeedback), the feedback        *)
(* validators and the error classifier handleErrorResponse.                *)
(*                                                                         *)
(* JavaScript values are tagged records.  A string is a sequence of        *)
(* tokens: a token is either a whitespace token (a member of WS) or an     *)
(* indivisible run of text that neither starts nor ends with whitespace,   *)
(* so String.prototype.trim is the removal of the leading and trailing     *)
(* whitespace tokens and template literals are concatenations.             *)
(***************************************************************************)
EXTENDS Integers, Sequences, FiniteSets, TLC

\* ------------------------------------------------------------------ bounds
MaxInFlight == 2          \* invocation slots
MaxFetch == 2             \* cap on the global count of fetch calls
MaxElapsed == 45000       \* cap on the modelled time of one invocation (ms)
TickMs == 15000           \* granularity of the modelled clock (ms)

Slots == 1..MaxInFlight

\* ------------------------------------------------------- JavaScript values
Undefined == [t |-> "undefined"]
Null == [t |-> "null"]
Str(s) == [t |-> "string", s |-> s]
Num(n) == [t |-> "number", n |-> n]
Obj(r) == [t |-> "object", o |-> r]
\* an object that (transitively) references itself: JSON.stringify throws
Cyclic == [t |-> "cyclic"]
NoProps == <<>>

IsNullish(v) == v.t \in {"undefined", "null"}

\* !v
Falsy(v) ==
  \/ IsNullish(v)
  \/ (v.t = "string" /\ v.s = <<>>)
  \/ (v.t = "number" /\ v.n = 0)

\* a || b
Or(a, b) == IF Falsy(a) THEN b ELSE a

\* v.k for a v that is neither null nor undefined
Get(v, k) == IF v.t = "object" /\ k \in DOMAIN v.o THEN v.o[k] ELSE Undefined

\* {...v}: the own enumerable properties of v (none for null and undefined)
Spread(v) == IF v.t = "object" THEN v.o ELSE NoProps

WS == {" ", "\t"}

RECURSIVE TrimStart(_)
TrimStart(s) ==
  IF s = <<>> THEN <<>>
  ELSE IF Head(s) \in WS THEN TrimStart(Tail(s)) ELSE s

RECURSIVE TrimEnd(_)
TrimEnd(s) ==
  IF s = <<>> THEN <<>>
  ELSE IF s[Len(s)] \in WS THEN TrimEnd(SubSeq(s, 1, Len(s) - 1)) ELSE s

\* String.prototype.trim
Trim(s) == TrimEnd(TrimStart(s))

\* x?.trim()
OptTrim(v) == IF IsNullish(v) THEN Undefined ELSE Str(Trim(v.s))

\* String(v), as done by the Error constructor on its message
StringOf(v) ==
  IF v.t = "string" THEN v.s
  ELSE IF v.t = "number" THEN <<ToString(v.n)>>
  ELSE IF v.t = "object" THEN <<"[object Object]">>
  ELSE <<v.t>>

\* completions of a piece of synchronous code
Return(v) == [kind |-> "return", v |-> v]
Throw(e) == [kind |-> "throw", e |-> e]

\* --------------------------------------------------------------- errors.ts
CobblErrorCode ==
  {"INVALID_CONFIG", "INVALID_REQUEST", "UNAUTHORIZED", "FORBIDDEN",
   "NOT_FOUND", "ARCHIVED", "RATE_LIMIT_EXCEEDED", "SERVER_ERROR",
   "NETWORK_ERROR", "API_ERROR"}

\* new CobblError(message, code, details)
CobblError(message, code, details) ==
  [t |-> "error", name |-> "CobblError", message |-> StringOf(message),
   code |-> code, details |-> details]

\* the built-in errors of the runtime: TypeError, SyntaxError, AbortError, Error
JsError(name, message) == [t |-> "error", name |-> name, message |-> message]

\* error instanceof Error
IsError(e) == e.t = "error"

\* error instanceof CobblError
IsCobblError(e) == e.t = "error" /\ e.name = "CobblError"

\* reading a property of null or undefined
TypeErrorRead == JsError("TypeError", <<"Cannot read properties of null or undefined">>)

\* calling .trim on a value that has no such method
TypeErrorCall == JsError("TypeError", <<"trim is not a function">>)

\* JSON.stringify of a cyclic structure
TypeErrorCyclic == JsError("TypeError", <<"Converting circular structure to JSON">>)

\* a serialization that leaves the details out
toJSON_noDetails(e) ==
  [name |-> e.name, message |-> e.message, code |-> e.code]

\* CobblError.prototype.toJSON
toJSON(e) ==
  [name |-> e.name, message |-> e.message, code |-> e.code, details |-> e.details]

\* response.ok
Ok(response) == response.status >= 200 /\ response.status <= 299

\* the switch of handleErrorResponse
StatusDefaultDetails(status, details) ==
  Obj(Spread(details) @@ [status |-> Num(status)])

StatusToError(status, message, details) ==
  CASE status = 400 -> CobblError(message, "INVALID_REQUEST", details)
    [] status = 401 -> CobblError(message, "UNAUTHORIZED", details)
    [] status = 403 -> CobblError(message, "FORBIDDEN", details)
    [] status = 404 -> CobblError(message, "NOT_FOUND", details)
    [] status = 410 -> CobblError(message, "ARCHIVED", details)
    [] status = 429 -> CobblError(message, "RATE_LIMIT_EXCEEDED", details)
    [] status \in {500, 502, 503, 504} -> CobblError(message, "SERVER_ERROR", details)
    [] OTHER -> CobblError(message, "API_ERROR", StatusDefaultDetails(status, details))

\* handleErrorResponse with a parse failure treated as an empty body and
\* classified by status
handleErrorResponse_fallthrough(response, parsed) ==
  LET errorData == IF parsed.kind = "throw" THEN Obj(NoProps) ELSE parsed.v IN
  IF IsNullish(errorData) THEN TypeErrorRead
  ELSE StatusToError(response.status,
                     Or(Or(Get(errorData, "error"), Get(errorData, "message")),
                        Str(<<"Unknown error">>)),
                     Get(errorData, "details"))

\* handleErrorResponse(response), given the completion of response.json();
\* the value is the error it throws
handleErrorResponse(response, parsed) ==
  IF parsed.kind = "throw"
  THEN CobblError(
         Str(<<"HTTP", " ", ToString(response.status), ":", " ">> \o response.statusText),
         "API_ERROR", Obj([status |-> Num(response.status)]))
  ELSE LET errorData == parsed.v IN
       IF IsNullish(errorData) THEN TypeErrorRead
       ELSE LET message == Or(Or(Get(errorData, "error"), Get(errorData, "message")),
                              Str(<<"Unknown error">>))
                details == Get(errorData, "details")
            IN StatusToError(response.status, message, details)

\* ----------------------------------------------------------- validation.ts
VALID_HELPFUL_VALUES == {Str(<<"helpful">>), Str(<<"not_helpful">>)}

\* a create validator without the test for a blank userFeedback
validateCreateFeedback_noBlankTest(feedback) ==
  IF IsNullish(feedback) THEN Throw(TypeErrorRead)
  ELSE LET runId == Get(feedback, "runId")
           helpful == Get(feedback, "helpful")
           userFeedback == Get(feedback, "userFeedback")
       IN
       IF Falsy(runId) THEN Return(Str(<<"runId is required">>))
       ELSE IF runId.t # "string" THEN Throw(TypeErrorCall)
       ELSE IF Len(Trim(runId.s)) = 0 THEN Return(Str(<<"runId is required">>))
       ELSE IF helpful # Undefined /\ helpful \notin VALID_HELPFUL_VALUES
       THEN Return(Str(<<"helpful must be \"helpful\" or \"not_helpful\"">>))
       ELSE IF userFeedback # Undefined /\ userFeedback.t # "string"
       THEN Throw(IF IsNullish(userFeedback) THEN TypeErrorRead ELSE TypeErrorCall)
       ELSE IF helpful = Undefined /\ userFeedback = Undefined
       THEN Return(Str(<<"At least one of helpful or userFeedback is required">>))
       ELSE Return(Null)

\* a validator that tests userFeedback before helpful
validateCreateFeedback_textFirst(feedback) ==
  IF IsNullish(feedback) THEN Throw(TypeErrorRead)
  ELSE LET runId == Get(feedback, "runId")
           helpful == Get(feedback, "helpful")
           userFeedback == Get(feedback, "userFeedback")
       IN
       IF Falsy(runId) THEN Return(Str(<<"runId is required">>))
       ELSE IF runId.t # "string" THEN Throw(TypeErrorCall)
       ELSE IF Len(Trim(runId.s)) = 0 THEN Return(Str(<<"runId is required">>))
       ELSE IF userFeedback # Undefined /\ userFeedback.t # "string"
       THEN Throw(IF IsNullish(userFeedback) THEN TypeErrorRead ELSE TypeErrorCall)
       ELSE IF userFeedback # Undefined /\ Len(Trim(userFeedback.s)) = 0
       THEN Return(Str(<<"userFeedback cannot be empty">>))
       ELSE IF helpful # Undefined /\ helpful \notin VALID_HELPFUL_VALUES
       THEN Return(Str(<<"helpful must be \"helpful\" or \"not_helpful\"">>))
       ELSE IF helpful = Undefined /\ userFeedback = Undefined
       THEN Return(Str(<<"At least one of helpful or userFeedback is required">>))
       ELSE Return(Null)

validateCreateFeedback(feedback) ==
  IF IsNullish(feedback) THEN Throw(TypeErrorRead)
  ELSE LET runId == Get(feedback, "runId")
           helpful == Get(feedback, "helpful")
           userFeedback == Get(feedback, "userFeedback")
       IN
       IF Falsy(runId) THEN Return(Str(<<"runId is required">>))
       ELSE IF runId.t # "string" THEN Throw(TypeErrorCall)
       ELSE IF Len(Trim(runId.s)) = 0 THEN Return(Str(<<"runId is required">>))
       ELSE IF helpful # Undefined /\ helpful \notin VALID_HELPFUL_VALUES
       THEN Return(Str(<<"helpful must be \"helpful\" or \"not_helpful\"">>))
       ELSE IF userFeedback # Undefined /\ userFeedback.t # "string"
       THEN Throw(IF IsNullish(userFeedback) THEN TypeErrorRead ELSE TypeErrorCall)
       ELSE IF userFeedback # Undefined /\ Len(Trim(userFeedback.s)) = 0
       THEN Return(Str(<<"userFeedback cannot be empty">>))
       ELSE IF helpful = Undefined /\ userFeedback = Undefined
       THEN Return(Str(<<"At least one of helpful or userFeedback is required">>))
       ELSE Return(Null)

\* an update validator without the at-least-one rule
validateUpdateFeedback_noAtLeastOne(update) ==
  IF IsNullish(update) THEN Throw(TypeErrorRead)
  ELSE LET helpful == Get(update, "helpful")
           userFeedback == Get(update, "userFeedback")
       IN
       IF helpful # Undefined /\ helpful \notin VALID_HELPFUL_VALUES
       THEN Return(Str(<<"helpful must be \"helpful\" or \"not_helpful\"">>))
       ELSE IF userFeedback # Undefined /\ userFeedback.t # "string"
       THEN Throw(IF IsNullish(userFeedback) THEN TypeErrorRead ELSE TypeErrorCall)
       ELSE IF userFeedback # Undefined /\ Len(Trim(userFeedback.s)) = 0
       THEN Return(Str(<<"userFeedback cannot be empty">>))
       ELSE Return(Null)

validateUpdateFeedback(update) ==
  IF IsNullish(update) THEN Throw(TypeErrorRead)
  ELSE LET helpful == Get(update, "helpful")
           userFeedback == Get(update, "userFeedback")
       IN
       IF helpful # Undefined /\ helpful \notin VALID_HELPFUL_VALUES
       THEN Return(Str(<<"helpful must be \"helpful\" or \"not_helpful\"">>))
       ELSE IF userFeedback # Undefined /\ userFeedback.t # "string"
       THEN Throw(IF IsNullish(userFeedback) THEN TypeErrorRead ELSE TypeErrorCall)
       ELSE IF userFeedback # Undefined /\ Len(Trim(userFeedback.s)) = 0
       THEN Return(Str(<<"userFeedback cannot be empty">>))
       ELSE IF helpful = Undefined /\ userFeedback = Undefined
       THEN Return(Str(<<"At least one of helpful or userFeedback is required">>))
       ELSE Return(Null)

\* ------------------------------------------------------ admin.ts, public.ts
REQUEST_TIMEOUT_MS == 30000

DefaultBaseUrl == Str(<<"https://api.cobbl.ai">>)

NoClient == [kind |-> "none"]

\* a constructor that stores the key trimmed
NewCobblAdminClient_trimKey(config) ==
  IF IsNullish(config) THEN Throw(TypeErrorRead)
  ELSE LET apiKey == Get(config, "apiKey")
           baseUrl == Get(config, "baseUrl")
       IN
       IF Falsy(apiKey) \/ Len(Trim(apiKey.s)) = 0
       THEN Throw(CobblError(Str(<<"API key is required">>), "INVALID_CONFIG", Undefined))
       ELSE Return([kind |-> "admin", apiKey |-> Str(Trim(apiKey.s)),
                    baseUrl |-> Or(OptTrim(baseUrl), DefaultBaseUrl)])

\* a constructor that only tests the key for falsiness, without trimming
NewCobblAdminClient_noTrim(config) ==
  IF IsNullish(config) THEN Throw(TypeErrorRead)
  ELSE LET apiKey == Get(config, "apiKey")
           baseUrl == Get(config, "baseUrl")
       IN
       IF Falsy(apiKey)
       THEN Throw(CobblError(Str(<<"API key is required">>), "INVALID_CONFIG", Undefined))
       ELSE Return([kind |-> "admin", apiKey |-> apiKey,
                    baseUrl |-> Or(OptTrim(baseUrl), DefaultBaseUrl)])

\* new CobblAdminClient(config): the completion of the constructor
NewCobblAdminClient(config) ==
  IF IsNullish(config) THEN Throw(TypeErrorRead)
  ELSE LET apiKey == Get(config, "apiKey")
           baseUrl == Get(config, "baseUrl")
       IN
       IF Falsy(apiKey) \/ Len(Trim(apiKey.s)) = 0
       THEN Throw(CobblError(Str(<<"API key is required">>), "INVALID_CONFIG", Undefined))
       ELSE Return([kind |-> "admin", apiKey |-> apiKey,
                    baseUrl |-> Or(OptTrim(baseUrl), DefaultBaseUrl)])

\* new CobblPublicClient(config = {}): the completion of the constructor
NewCobblPublicClient(config) ==
  LET cfg == IF config = Undefined THEN Obj(NoProps) ELSE config IN
  IF IsNullish(cfg) THEN Throw(TypeErrorRead)
  ELSE Return([kind |-> "public",
               baseUrl |-> Or(OptTrim(Get(cfg, "baseUrl")), DefaultBaseUrl)])

\* JSON.stringify of an object literal whose members are the fields of r:
\* members whose value is undefined are left out, a cyclic member throws
JSONstringify(r) ==
  IF \E k \in DOMAIN r : r[k] = Cyclic THEN Throw(TypeErrorCyclic)
  ELSE Return([t |-> "json",
               o |-> [k \in {m \in DOMAIN r : r[m] # Undefined} |-> r[k]]])

\* the request is issued: the method is suspended on fetch
Await(request) == [kind |-> "await", request |-> request]

\* CobblAdminClient.makeRequest: the arguments handed to fetch
AdminMakeRequest(client, path, options) ==
  [url |-> client.baseUrl.s \o path,
   method |-> options.method,
   headers |-> ("Content-Type" :> <<"application/json">>)
               @@ ("Authorization" :> (<<"Bearer", " ">> \o client.apiKey.s)),
   body |-> options.body]

\* a public makeRequest copied from the admin one, Authorization included
PublicMakeRequest_withAuth(client, path, options) ==
  [url |-> client.baseUrl.s \o path,
   method |-> options.method,
   headers |-> ("Content-Type" :> <<"application/json">>)
               @@ ("Authorization" :> <<"Bearer", " ", "undefined">>),
   body |-> options.body]

\* CobblPublicClient.makeRequest: the arguments handed to fetch
PublicMakeRequest(client, path, options) ==
  [url |-> client.baseUrl.s \o path,
   method |-> options.method,
   headers |-> ("Content-Type" :> <<"application/json">>),
   body |-> options.body]

\* runPrompt's catch block reading error.message without the instanceof Error test
runPromptCatch_noErrorTest(error) ==
  IF IsCobblError(error) THEN error
  ELSE CobblError(
         Str(<<"Failed to run prompt:", " ">>
             \o (IF IsError(error) THEN error.message ELSE <<"undefined">>)),
         "NETWORK_ERROR", Undefined)

\* createFeedback's catch block without the instanceof CobblError test
createFeedbackCatch_alwaysWrap(error) ==
  CobblError(
    Str(<<"Failed to create feedback:", " ">>
        \o (IF IsError(error) THEN error.message ELSE <<"Unknown error">>)),
    "NETWORK_ERROR", Undefined)

\* the catch blocks of the three methods: the error that reaches the caller
runPromptCatch(error) ==
  IF IsCobblError(error) THEN error
  ELSE CobblError(
         Str(<<"Failed to run prompt:", " ">>
             \o (IF IsError(error) THEN error.message ELSE <<"Unknown error">>)),
         "NETWORK_ERROR", Undefined)

createFeedbackCatch(error) ==
  IF IsCobblError(error) THEN error
  ELSE CobblError(
         Str(<<"Failed to create feedback:", " ">>
             \o (IF IsError(error) THEN error.message ELSE <<"Unknown error">>)),
         "NETWORK_ERROR", Undefined)

updateFeedbackCatch(error) ==
  IF IsCobblError(error) THEN error
  ELSE CobblError(
         Str(<<"Failed to update feedback:", " ">>
             \o (IF IsError(error) THEN error.message ELSE <<"Unknown error">>)),
         "NETWORK_ERROR", Undefined)

\* runPrompt testing the slug for falsiness only, without trimming
runPromptStart_noTrim(client, promptSlug, input) ==
  IF Falsy(promptSlug)
  THEN Throw(CobblError(Str(<<"promptSlug is required">>), "INVALID_REQUEST", Undefined))
  ELSE LET body == JSONstringify([promptSlug |-> Str(Trim(promptSlug.s)),
                                  input |-> input])
       IN IF body.kind = "throw" THEN Throw(runPromptCatch(body.e))
          ELSE Await(AdminMakeRequest(client, <<"/admin/v1/prompt/run">>,
                                      [method |-> "POST", body |-> body.v]))

\* runPrompt sending the slug as given, without trimming it
runPromptStart_rawSlug(client, promptSlug, input) ==
  IF Falsy(promptSlug) \/ Len(Trim(promptSlug.s)) = 0
  THEN Throw(CobblError(Str(<<"promptSlug is required">>), "INVALID_REQUEST", Undefined))
  ELSE LET body == JSONstringify([promptSlug |-> promptSlug, input |-> input])
       IN IF body.kind = "throw" THEN Throw(runPromptCatch(body.e))
          ELSE Await(AdminMakeRequest(client, <<"/admin/v1/prompt/run">>,
                                      [method |-> "POST", body |-> body.v]))

\* runPrompt up to its first await: a thrown error or the issued request
runPromptStart(client, promptSlug, input) ==
  IF Falsy(promptSlug) \/ Len(Trim(promptSlug.s)) = 0
  THEN Throw(CobblError(Str(<<"promptSlug is required">>), "INVALID_REQUEST", Undefined))
  ELSE LET body == JSONstringify([promptSlug |-> Str(Trim(promptSlug.s)),
                                  input |-> input])
       IN IF body.kind = "throw" THEN Throw(runPromptCatch(body.e))
          ELSE Await(AdminMakeRequest(client, <<"/admin/v1/prompt/run">>,
                                      [method |-> "POST", body |-> body.v]))

\* createFeedback without the test of validationError
createFeedbackStart_unchecked(client, feedback) ==
  IF IsNullish(feedback) THEN Throw(TypeErrorRead)
  ELSE Await(PublicMakeRequest(client, <<"/public/v1/feedback">>,
         [method |-> "POST",
          body |-> JSONstringify([runId |-> OptTrim(Get(feedback, "runId")),
                                  helpful |-> Get(feedback, "helpful"),
                                  userFeedback |-> OptTrim(Get(feedback, "userFeedback"))]).v]))

\* createFeedback sending userFeedback as given, without trimming it
createFeedbackStart_rawText(client, feedback) ==
  LET validationError == validateCreateFeedback(feedback) IN
  IF validationError.kind = "throw" THEN validationError
  ELSE IF ~Falsy(validationError.v)
  THEN Throw(CobblError(validationError.v, "INVALID_REQUEST", Undefined))
  ELSE LET body == [runId |-> Str(Trim(Get(feedback, "runId").s)),
                    helpful |-> Get(feedback, "helpful"),
                    userFeedback |-> Get(feedback, "userFeedback")]
           text == JSONstringify(body)
       IN IF text.kind = "throw" THEN Throw(createFeedbackCatch(text.e))
          ELSE Await(PublicMakeRequest(client, <<"/public/v1/feedback">>,
                                       [method |-> "POST", body |-> text.v]))

\* createFeedback up to its first await
createFeedbackStart(client, feedback) ==
  LET validationError == validateCreateFeedback(feedback) IN
  IF validationError.kind = "throw" THEN validationError
  ELSE IF ~Falsy(validationError.v)
  THEN Throw(CobblError(validationError.v, "INVALID_REQUEST", Undefined))
  ELSE LET body == [runId |-> Str(Trim(Get(feedback, "runId").s)),
                    helpful |-> Get(feedback, "helpful"),
                    userFeedback |-> OptTrim(Get(feedback, "userFeedback"))]
           text == JSONstringify(body)
       IN IF text.kind = "throw" THEN Throw(createFeedbackCatch(text.e))
          ELSE Await(PublicMakeRequest(client, <<"/public/v1/feedback">>,
                                       [method |-> "POST", body |-> text.v]))

\* updateFeedback validating the payload before the id
updateFeedbackStart_payloadFirst(client, id, update) ==
  LET validationError == validateUpdateFeedback(update) IN
  IF validationError.kind = "throw" THEN validationError
  ELSE IF ~Falsy(validationError.v)
  THEN Throw(CobblError(validationError.v, "INVALID_REQUEST", Undefined))
  ELSE IF Falsy(id) \/ Len(Trim(id.s)) = 0
  THEN Throw(CobblError(Str(<<"id is required">>), "INVALID_REQUEST", Undefined))
  ELSE LET body == [helpful |-> Get(update, "helpful"),
                    userFeedback |-> OptTrim(Get(update, "userFeedback"))]
           text == JSONstringify(body)
       IN IF text.kind = "throw" THEN Throw(updateFeedbackCatch(text.e))
          ELSE Await(PublicMakeRequest(client,
                                       <<"/public/v1/feedback/">> \o Trim(id.s),
                                       [method |-> "PATCH", body |-> text.v]))

\* updateFeedback up to its first await
updateFeedbackStart(client, id, update) ==
  IF Falsy(id) \/ Len(Trim(id.s)) = 0
  THEN Throw(CobblError(Str(<<"id is required">>), "INVALID_REQUEST", Undefined))
  ELSE LET validationError == validateUpdateFeedback(update) IN
  IF validationError.kind = "throw" THEN validationError
  ELSE IF ~Falsy(validationError.v)
  THEN Throw(CobblError(validationError.v, "INVALID_REQUEST", Undefined))
  ELSE LET body == [helpful |-> Get(update, "helpful"),
                    userFeedback |-> OptTrim(Get(update, "userFeedback"))]
           text == JSONstringify(body)
       IN IF text.kind = "throw" THEN Throw(updateFeedbackCatch(text.e))
          ELSE Await(PublicMakeRequest(client,
                                       <<"/public/v1/feedback/">> \o Trim(id.s),
                                       [method |-> "PATCH", body |-> text.v]))

\* runPrompt's result with renderedPrompt filled from data.output
runPromptFinish_copyPaste(response, parsed) ==
  IF ~Ok(response) THEN Throw(runPromptCatch(handleErrorResponse(response, parsed)))
  ELSE IF parsed.kind = "throw" THEN Throw(runPromptCatch(parsed.e))
  ELSE LET data == parsed.v IN
       IF IsNullish(data) THEN Throw(runPromptCatch(TypeErrorRead))
       ELSE Return(Obj([runId |-> Get(data, "runId"),
                        output |-> Get(data, "output"),
                        tokenUsage |-> Get(data, "tokenUsage"),
                        renderedPrompt |-> Get(data, "output"),
                        promptVersion |-> Get(data, "promptVersion")]))

\* runPrompt calling handleErrorResponse without awaiting it: the method
\* goes on to read the body of a failed response as its result
runPromptFinish_missingAwait(response, parsed) ==
  IF parsed.kind = "throw" THEN Throw(runPromptCatch(parsed.e))
  ELSE LET data == parsed.v IN
       IF IsNullish(data) THEN Throw(runPromptCatch(TypeErrorRead))
       ELSE Return(Obj([runId |-> Get(data, "runId"),
                        output |-> Get(data, "output"),
                        tokenUsage |-> Get(data, "tokenUsage"),
                        renderedPrompt |-> Get(data, "renderedPrompt"),
                        promptVersion |-> Get(data, "promptVersion")]))

\* the three methods after fetch has resolved with a response, given the
\* completion of response.json(): the completion that reaches the caller
runPromptFinish(response, parsed) ==
  IF ~Ok(response) THEN Throw(runPromptCatch(handleErrorResponse(response, parsed)))
  ELSE IF parsed.kind = "throw" THEN Throw(runPromptCatch(parsed.e))
  ELSE LET data == parsed.v IN
       IF IsNullish(data) THEN Throw(runPromptCatch(TypeErrorRead))
       ELSE Return(Obj([runId |-> Get(data, "runId"),
                        output |-> Get(data, "output"),
                        tokenUsage |-> Get(data, "tokenUsage"),
                        renderedPrompt |-> Get(data, "renderedPrompt"),
                        promptVersion |-> Get(data, "promptVersion")]))

createFeedbackFinish(response, parsed) ==
  IF ~Ok(response) THEN Throw(createFeedbackCatch(handleErrorResponse(response, parsed)))
  ELSE IF parsed.kind = "throw" THEN Throw(createFeedbackCatch(parsed.e))
  ELSE LET data == parsed.v IN
       IF IsNullish(data) THEN Throw(createFeedbackCatch(TypeErrorRead))
       ELSE Return(Obj([id |-> Get(data, "id"), message |-> Get(data, "message")]))

updateFeedbackFinish(response, parsed) ==
  IF ~Ok(response) THEN Throw(updateFeedbackCatch(handleErrorResponse(response, parsed)))
  ELSE IF parsed.kind = "throw" THEN Throw(updateFeedbackCatch(parsed.e))
  ELSE LET data == parsed.v IN
       IF IsNullish(data) THEN Throw(updateFeedbackCatch(TypeErrorRead))
       ELSE Return(Obj([id |-> Get(data, "id"), message |-> Get(data, "message")]))

\* ------------------------------------------------- the caller and the server
\* argument values a caller passes where a string is expected
StringArgs(tok) ==
  {Undefined, Null, Str(<<>>), Str(<<" ", "\t">>), Str(<<tok>>), Str(<<" ", tok, " ">>)}

ApiKeys == {Undefined, Str(<<>>), Str(<<" ">>), Str(<<"sk-key">>), Str(<<" ", "sk-key">>)}

BaseUrls ==
  {Undefined, Str(<<" ">>), Str(<<"http://localhost:5001">>),
   Str(<<" ", "http://localhost:5001", " ">>)}

AdminConfigs ==
  {Undefined} \cup {Obj([apiKey |-> k, baseUrl |-> b]) : k \in ApiKeys, b \in BaseUrls}

PublicConfigs ==
  {Undefined, Null, Obj(NoProps), Obj([apiKey |-> Str(<<"sk-key">>)])}
  \cup {Obj([baseUrl |-> b]) : b \in BaseUrls}

PromptSlugs == StringArgs("sales_summary")

PromptInputs == {Obj(NoProps), Obj([topic |-> Str(<<"Q4", " ", "Results">>)]), Cyclic}

HelpfulArgs == {Undefined, Str(<<"helpful">>), Str(<<"not_helpful">>), Str(<<"invalid">>)}

UserFeedbackArgs ==
  {Undefined, Null, Str(<<>>), Str(<<" ", "\t">>), Str(<<"Too", " ", "formal">>),
   Str(<<" ", "Too", " ", "formal", " ">>)}

CreateFeedbackArgs ==
  {Undefined}
  \cup {Obj([runId |-> r, helpful |-> h, userFeedback |-> u]) :
          r \in StringArgs("run-123"), h \in HelpfulArgs, u \in UserFeedbackArgs}

FeedbackIds == StringArgs("fb-123")

UpdateFeedbackArgs ==
  {Undefined}
  \cup {Obj([helpful |-> h, userFeedback |-> u]) : h \in HelpfulArgs, u \in UserFeedbackArgs}

\* what the server may answer
Statuses == {200, 400, 401, 403, 404, 410, 429, 500, 502, 503, 504, 418}

StatusText(status) ==
  CASE status = 200 -> <<"OK">>
    [] status = 400 -> <<"Bad", " ", "Request">>
    [] status = 401 -> <<"Unauthorized">>
    [] status = 403 -> <<"Forbidden">>
    [] status = 404 -> <<"Not", " ", "Found">>
    [] status = 410 -> <<"Gone">>
    [] status = 429 -> <<"Too", " ", "Many", " ", "Requests">>
    [] status = 500 -> <<"Internal", " ", "Server", " ", "Error">>
    [] status = 502 -> <<"Bad", " ", "Gateway">>
    [] status = 503 -> <<"Service", " ", "Unavailable">>
    [] status = 504 -> <<"Gateway", " ", "Timeout">>
    [] OTHER -> <<"I'm", " ", "a", " ", "teapot">>

Responses == {[status |-> st, statusText |-> StatusText(st)] : st \in Statuses}

\* values response.json() may resolve with
ErrorBodies ==
  {Null, Str(<<"Bad", " ", "Gateway">>), Obj(NoProps),
   Obj([error |-> Str(<<"Invalid", " ", "input">>)]),
   Obj([error |-> Str(<<>>), message |-> Str(<<"Custom", " ", "message">>)]),
   Obj([error |-> Str(<<"Invalid", " ", "input">>),
        details |-> Obj([missingVariables |-> Str(<<"topic">>)])]),
   Obj([error |-> Str(<<"Invalid", " ", "input">>),
        details |-> Obj([status |-> Num(999)])]),
   Obj([error |-> Str(<<"Invalid", " ", "input">>), details |-> Null])}


SuccessBodies ==
  {Obj([runId |-> Str(<<"run-123">>), output |-> Str(<<"x">>),
        tokenUsage |-> Obj([inputTokens |-> Num(10), outputTokens |-> Num(20),
                            totalTokens |-> Num(30)]),
        renderedPrompt |-> Str(<<"p">>),
        promptVersion |-> Obj([id |-> Str(<<"v1">>)])]),
   Obj([id |-> Str(<<"fb-123">>), message |-> Str(<<"Success">>)])}

Bodies == ErrorBodies \cup SuccessBodies

\* what fetch may reject with when no response is obtained
TransportErrors ==
  {JsError("Error", <<"Network", " ", "failure">>),
   JsError("TypeError", <<"fetch", " ", "failed">>),
   Str(<<"connection", " ", "refused">>)}

\* fetch rejecting because the signal was aborted
AbortError == JsError("AbortError", <<"This", " ", "operation", " ", "was", " ", "aborted">>)

\* response.json() rejecting on a body that is not JSON
SyntaxError == JsError("SyntaxError", <<"Unexpected", " ", "token">>)

\* -------------------------------------------------------------------- state
VARIABLES
  client,      \* the constructed client, or NoClient
  ctor,        \* completion of the last constructor call
  pc,          \* per slot: "idle", "fetch", "json", "done"
  call,        \* per slot: the method invoked and its arguments
  req,         \* per slot: the request handed to fetch
  resp,        \* per slot: the response fetch resolved with
  parsed,      \* per slot: the completion of response.json()
  rejected,    \* per slot: what fetch rejected with
  timer,       \* per slot: "none", "pending", "cleared", "fired"
  aborted,     \* per slot: controller.signal.aborted
  outcome,     \* per slot: what reached the caller
  nReq,        \* per slot: fetch calls made by the invocation
  elapsed,     \* per slot: how long the pending invocation has kept its
               \* caller suspended (ms); 0 when none is pending
  fetchCount,  \* fetch calls made so far
  env          \* process.env.COBBL_API_URL

vars ==
  <<client, ctor, pc, call, req, resp, parsed, rejected, timer, aborted,
    outcome, nReq, elapsed, fetchCount, env>>

None == [kind |-> "none"]

Init ==
  /\ client = NoClient
  /\ ctor = None
  /\ pc = [i \in Slots |-> "idle"]
  /\ call = [i \in Slots |-> None]
  /\ req = [i \in Slots |-> None]
  /\ resp = [i \in Slots |-> None]
  /\ parsed = [i \in Slots |-> None]
  /\ rejected = [i \in Slots |-> None]
  /\ timer = [i \in Slots |-> "none"]
  /\ aborted = [i \in Slots |-> FALSE]
  /\ outcome = [i \in Slots |-> None]
  /\ nReq = [i \in Slots |-> 0]
  /\ elapsed = [i \in Slots |-> 0]
  /\ fetchCount = 0
  /\ env = Undefined

slotVars == <<pc, call, req, resp, parsed, rejected, timer, aborted, outcome, nReq, elapsed, fetchCount>>

\* new CobblAdminClient(config)
CobblAdminClient(config) ==
  /\ client = NoClient
  /\ LET c == NewCobblAdminClient(config) IN
     /\ ctor' = c
     /\ client' = IF c.kind = "return" THEN c.v ELSE NoClient
  /\ UNCHANGED <<env, slotVars>>

\* a public constructor that falls back to COBBL_API_URL before the default
CobblPublicClient_envFallback(config) ==
  /\ client = NoClient
  /\ LET c == NewCobblPublicClient(config) IN
     /\ ctor' = c
     /\ client' = IF c.kind # "return" THEN NoClient
                  ELSE IF c.v.baseUrl = DefaultBaseUrl /\ ~Falsy(env)
                  THEN [c.v EXCEPT !.baseUrl = env]
                  ELSE c.v
  /\ UNCHANGED <<env, slotVars>>

\* new CobblPublicClient(config)
CobblPublicClient(config) ==
  /\ client = NoClient
  /\ LET c == NewCobblPublicClient(config) IN
     /\ ctor' = c
     /\ client' = IF c.kind = "return" THEN c.v ELSE NoClient
  /\ UNCHANGED <<env, slotVars>>

\* a method runs up to its first await: it either throws (the returned
\* promise is rejected) or has called fetch and started its timer
Begin(i, c, start) ==
  /\ pc[i] = "idle"
  /\ call' = [call EXCEPT ![i] = c]
  /\ IF start.kind = "throw"
     THEN /\ pc' = [pc EXCEPT ![i] = "done"]
          /\ outcome' = [outcome EXCEPT ![i] = start]
          /\ UNCHANGED <<req, timer, nReq, fetchCount>>
     ELSE /\ fetchCount < MaxFetch
          /\ pc' = [pc EXCEPT ![i] = "fetch"]
          /\ req' = [req EXCEPT ![i] = start.request]
          /\ timer' = [timer EXCEPT ![i] = "pending"]
          /\ nReq' = [nReq EXCEPT ![i] = @ + 1]
          /\ fetchCount' = fetchCount + 1
          /\ UNCHANGED outcome
  /\ UNCHANGED <<env, client, ctor, resp, parsed, rejected, aborted, elapsed>>

runPrompt(i, promptSlug, input) ==
  /\ client.kind = "admin"
  /\ Begin(i, [method |-> "runPrompt", promptSlug |-> promptSlug, input |-> input],
           runPromptStart(client, promptSlug, input))

\* createFeedback trimming the fields of the caller's object in place
createFeedback_inPlace(i, feedback) ==
  /\ client.kind = "public"
  /\ Begin(i,
           [method |-> "createFeedback",
            feedback |-> IF validateCreateFeedback(feedback) = Return(Null)
                         THEN Obj([runId |-> OptTrim(Get(feedback, "runId")),
                                   helpful |-> Get(feedback, "helpful"),
                                   userFeedback |-> OptTrim(Get(feedback, "userFeedback"))])
                         ELSE feedback],
           createFeedbackStart(client, feedback))

createFeedback(i, feedback) ==
  /\ client.kind = "public"
  /\ Begin(i, [method |-> "createFeedback", feedback |-> feedback],
           createFeedbackStart(client, feedback))

updateFeedback(i, id, update) ==
  /\ client.kind = "public"
  /\ Begin(i, [method |-> "updateFeedback", id |-> id, update |-> update],
           updateFeedbackStart(client, id, update))

\* the catch block of the method invoked in slot i
Catch(i, error) ==
  CASE call[i].method = "runPrompt" -> runPromptCatch(error)
    [] call[i].method = "createFeedback" -> createFeedbackCatch(error)
    [] call[i].method = "updateFeedback" -> updateFeedbackCatch(error)

\* the rest of the method invoked in slot i once response.json() has settled
Finish(i, p) ==
  CASE call[i].method = "runPrompt" -> runPromptFinish(resp[i], p)
    [] call[i].method = "createFeedback" -> createFeedbackFinish(resp[i], p)
    [] call[i].method = "updateFeedback" -> updateFeedbackFinish(resp[i], p)

\* fetch resolves with a response: makeRequest clears the timer and the
\* method (or handleErrorResponse) awaits response.json()
FetchResolves(i, response) ==
  /\ pc[i] = "fetch"
  /\ ~aborted[i]
  /\ resp' = [resp EXCEPT ![i] = response]
  /\ timer' = [timer EXCEPT ![i] = "cleared"]
  /\ pc' = [pc EXCEPT ![i] = "json"]
  /\ UNCHANGED <<env, client, ctor, call, req, parsed, rejected, aborted, outcome, nReq, elapsed, fetchCount>>

\* a rejected fetch answered by calling fetch again
FetchRejects_retry(i, error) ==
  /\ pc[i] = "fetch"
  /\ ~aborted[i]
  /\ fetchCount < MaxFetch
  /\ nReq' = [nReq EXCEPT ![i] = @ + 1]
  /\ fetchCount' = fetchCount + 1
  /\ UNCHANGED <<env, client, ctor, pc, call, req, resp, parsed, rejected, timer, aborted,
                 outcome, elapsed>>

\* a rejected fetch whose timer is cleared only on the success path
FetchRejects_leak(i, error) ==
  /\ pc[i] = "fetch"
  /\ ~aborted[i]
  /\ rejected' = [rejected EXCEPT ![i] = error]
  /\ outcome' = [outcome EXCEPT ![i] = Throw(Catch(i, error))]
  /\ pc' = [pc EXCEPT ![i] = "done"]
  /\ elapsed' = [elapsed EXCEPT ![i] = 0]
  /\ UNCHANGED <<env, client, ctor, call, req, resp, parsed, timer, aborted, nReq, fetchCount>>

\* a rejected fetch after which the client falls back to the default URL
FetchRejects_fallbackUrl(i, error) ==
  /\ pc[i] = "fetch"
  /\ ~aborted[i]
  /\ client' = [client EXCEPT !.baseUrl = DefaultBaseUrl]
  /\ timer' = [timer EXCEPT ![i] = "cleared"]
  /\ rejected' = [rejected EXCEPT ![i] = error]
  /\ outcome' = [outcome EXCEPT ![i] = Throw(Catch(i, error))]
  /\ pc' = [pc EXCEPT ![i] = "done"]
  /\ elapsed' = [elapsed EXCEPT ![i] = 0]
  /\ UNCHANGED <<env, ctor, call, req, resp, parsed, aborted, nReq, fetchCount>>

\* fetch rejects: makeRequest clears the timer, the catch block wraps
FetchRejects(i, error) ==
  /\ pc[i] = "fetch"
  /\ ~aborted[i]
  /\ timer' = [timer EXCEPT ![i] = "cleared"]
  /\ rejected' = [rejected EXCEPT ![i] = error]
  /\ outcome' = [outcome EXCEPT ![i] = Throw(Catch(i, error))]
  /\ pc' = [pc EXCEPT ![i] = "done"]
  /\ elapsed' = [elapsed EXCEPT ![i] = 0]
  /\ UNCHANGED <<env, client, ctor, call, req, resp, parsed, aborted, nReq, fetchCount>>

\* a timer whose abort signal was not handed to fetch: the abort has no
\* effect on the pending call
TimeoutFires_noSignal(i) ==
  /\ timer[i] = "pending"
  /\ elapsed[i] >= REQUEST_TIMEOUT_MS
  /\ timer' = [timer EXCEPT ![i] = "fired"]
  /\ aborted' = [aborted EXCEPT ![i] = TRUE]
  /\ UNCHANGED <<env, client, ctor, pc, call, req, resp, parsed, rejected, outcome, nReq,
                 elapsed, fetchCount>>

\* one abort controller shared by the calls of a client: the timer of one
\* invocation aborts every pending fetch
TimeoutFires_sharedController(i) ==
  /\ timer[i] = "pending"
  /\ elapsed[i] >= REQUEST_TIMEOUT_MS
  /\ timer' = [j \in Slots |-> IF j = i THEN "fired"
                               ELSE IF pc[j] = "fetch" THEN "cleared" ELSE timer[j]]
  /\ aborted' = [j \in Slots |-> IF pc[j] = "fetch" THEN TRUE ELSE aborted[j]]
  /\ rejected' = [j \in Slots |-> IF pc[j] = "fetch" THEN AbortError ELSE rejected[j]]
  /\ outcome' = [j \in Slots |-> IF pc[j] = "fetch" THEN Throw(Catch(j, AbortError))
                                 ELSE outcome[j]]
  /\ pc' = [j \in Slots |-> IF pc[j] = "fetch" THEN "done" ELSE pc[j]]
  /\ elapsed' = [j \in Slots |-> IF pc[j] = "fetch" THEN 0 ELSE elapsed[j]]
  /\ UNCHANGED <<env, client, ctor, call, req, resp, parsed, nReq, fetchCount>>

\* the timer fires after REQUEST_TIMEOUT_MS: controller.abort() makes the
\* pending fetch reject with an AbortError
TimeoutFires(i) ==
  /\ timer[i] = "pending"
  /\ elapsed[i] >= REQUEST_TIMEOUT_MS
  /\ timer' = [timer EXCEPT ![i] = "fired"]
  /\ aborted' = [aborted EXCEPT ![i] = TRUE]
  /\ IF pc[i] = "fetch"
     THEN /\ rejected' = [rejected EXCEPT ![i] = AbortError]
          /\ outcome' = [outcome EXCEPT ![i] = Throw(Catch(i, AbortError))]
          /\ pc' = [pc EXCEPT ![i] = "done"]
          /\ elapsed' = [elapsed EXCEPT ![i] = 0]
     ELSE UNCHANGED <<rejected, outcome, pc, elapsed>>
  /\ UNCHANGED <<env, client, ctor, call, req, resp, parsed, nReq, fetchCount>>

\* response.json() resolves with a value
JsonResolves(i, value) ==
  /\ pc[i] = "json"
  /\ parsed' = [parsed EXCEPT ![i] = Return(value)]
  /\ outcome' = [outcome EXCEPT ![i] = Finish(i, Return(value))]
  /\ pc' = [pc EXCEPT ![i] = "done"]
  /\ elapsed' = [elapsed EXCEPT ![i] = 0]
  /\ UNCHANGED <<env, client, ctor, call, req, resp, rejected, timer, aborted, nReq, fetchCount>>

\* response.json() rejects
JsonRejects(i) ==
  /\ pc[i] = "json"
  /\ parsed' = [parsed EXCEPT ![i] = Throw(SyntaxError)]
  /\ outcome' = [outcome EXCEPT ![i] = Finish(i, Throw(SyntaxError))]
  /\ pc' = [pc EXCEPT ![i] = "done"]
  /\ elapsed' = [elapsed EXCEPT ![i] = 0]
  /\ UNCHANGED <<env, client, ctor, call, req, resp, rejected, timer, aborted, nReq, fetchCount>>

Suspended(i) == pc[i] \in {"fetch", "json"}

\* the time left on the pending timers
Remaining == {REQUEST_TIMEOUT_MS - elapsed[i] : i \in {j \in Slots : timer[j] = "pending"}}

\* the next clock step: a pending timer is not overrun
Step ==
  IF \E r \in Remaining : r < TickMs
  THEN CHOOSE r \in Remaining : \A q \in Remaining : r <= q
  ELSE TickMs

\* time passes for the suspended invocations
Tick ==
  /\ \E i \in Slots : Suspended(i)
  /\ \A i \in Slots : timer[i] = "pending" => elapsed[i] < REQUEST_TIMEOUT_MS
  /\ \A i \in Slots : Suspended(i) => elapsed[i] + Step <= MaxElapsed
  /\ elapsed' = [i \in Slots |-> IF Suspended(i) THEN elapsed[i] + Step ELSE elapsed[i]]
  /\ UNCHANGED <<env, client, ctor, pc, call, req, resp, parsed, rejected, timer, aborted, outcome, nReq, fetchCount>>

\* the caller has received the outcome; the slot is free for another call
Release(i) ==
  /\ pc[i] = "done"
  /\ pc' = [pc EXCEPT ![i] = "idle"]
  /\ call' = [call EXCEPT ![i] = None]
  /\ req' = [req EXCEPT ![i] = None]
  /\ resp' = [resp EXCEPT ![i] = None]
  /\ parsed' = [parsed EXCEPT ![i] = None]
  /\ rejected' = [rejected EXCEPT ![i] = None]
  /\ timer' = [timer EXCEPT ![i] = "none"]
  /\ aborted' = [aborted EXCEPT ![i] = FALSE]
  /\ outcome' = [outcome EXCEPT ![i] = None]
  /\ nReq' = [nReq EXCEPT ![i] = 0]
  /\ elapsed' = [elapsed EXCEPT ![i] = 0]
  /\ UNCHANGED <<env, client, ctor, fetchCount>>

\* the caller awaits each call before making the next one
Sequential(i) == \A j \in Slots \ {i} : pc[j] = "idle"

Next ==
  \/ \E config \in AdminConfigs : CobblAdminClient(config)
  \/ \E config \in PublicConfigs : CobblPublicClient(config)
  \/ \E i \in Slots, promptSlug \in PromptSlugs, input \in PromptInputs :
       Sequential(i) /\ runPrompt(i, promptSlug, input)
  \/ \E i \in Slots, feedback \in CreateFeedbackArgs :
       Sequential(i) /\ createFeedback(i, feedback)
  \/ \E i \in Slots, id \in FeedbackIds, update \in UpdateFeedbackArgs :
       Sequential(i) /\ updateFeedback(i, id, update)
  \/ \E i \in Slots, response \in Responses : FetchResolves(i, response)
  \/ \E i \in Slots, error \in TransportErrors : FetchRejects(i, error)
  \/ \E i \in Slots : TimeoutFires(i)
  \/ \E i \in Slots, value \in Bodies : JsonResolves(i, value)
  \/ \E i \in Slots : JsonRejects(i)
  \/ Tick
  \/ \E i \in Slots : Release(i)

Spec == Init /\ [][Next]_vars

\* ------------------------------------------------ calls made without awaiting
\* the configurations, arguments and answers of the concurrent callers
ConcAdminConfigs == {Obj([apiKey |-> Str(<<"sk-key">>), baseUrl |-> Undefined])}

ConcPublicConfigs == {Obj(NoProps)}

ConcPromptSlugs == {Str(<<"sales_summary">>), Str(<<>>)}

ConcPromptInputs == {Obj(NoProps)}

ConcCreateFeedbackArgs ==
  {Obj([runId |-> Str(<<"run-123">>), helpful |-> Str(<<"helpful">>),
        userFeedback |-> Undefined]),
   Obj([runId |-> Str(<<>>), helpful |-> Str(<<"helpful">>), userFeedback |-> Undefined])}

ConcFeedbackIds == {Str(<<"fb-123">>)}

ConcUpdateFeedbackArgs ==
  {Obj([helpful |-> Str(<<"not_helpful">>), userFeedback |-> Undefined])}

ConcResponses == {r \in Responses : r.status \in {200, 500}}

ConcBodies ==
  {Obj([id |-> Str(<<"fb-123">>), message |-> Str(<<"Success">>)]),
   Obj([error |-> Str(<<"Invalid", " ", "input">>)])}

ConcTransportErrors == {JsError("TypeError", <<"fetch", " ", "failed">>)}

\* the methods are async: a caller may start an invocation while others of
\* the same client are in flight; each slot holds one invocation
NextConc ==
  \/ \E config \in ConcAdminConfigs : CobblAdminClient(config)
  \/ \E config \in ConcPublicConfigs : CobblPublicClient(config)
  \/ \E i \in Slots, promptSlug \in ConcPromptSlugs, input \in ConcPromptInputs :
       runPrompt(i, promptSlug, input)
  \/ \E i \in Slots, feedback \in ConcCreateFeedbackArgs : createFeedback(i, feedback)
  \/ \E i \in Slots, id \in ConcFeedbackIds, update \in ConcUpdateFeedbackArgs :
       updateFeedback(i, id, update)
  \/ \E i \in Slots, response \in ConcResponses : FetchResolves(i, response)
  \/ \E i \in Slots, error \in ConcTransportErrors : FetchRejects(i, error)
  \/ \E i \in Slots : TimeoutFires(i)
  \/ \E i \in Slots, value \in ConcBodies : JsonResolves(i, value)
  \/ \E i \in Slots : JsonRejects(i)
  \/ Tick

SpecConc == Init /\ [][NextConc]_vars

\* ------------------------------------------------- the process environment
\* values of process.env.COBBL_API_URL: unset, or an origin
EnvValues ==
  {Undefined, Str(<<"https://custom.api.com">>), Str(<<"https://staging.cobbl.ai">>)}

\* the embedding program sets or deletes process.env.COBBL_API_URL
SetEnv(v) ==
  /\ env' = v
  /\ UNCHANGED <<client, ctor, slotVars>>

\* the clients used sequentially in a process whose environment changes
NextEnv ==
  \/ \E v \in EnvValues : SetEnv(v)
  \/ \E config \in AdminConfigs : CobblAdminClient(config)
  \/ \E config \in PublicConfigs : CobblPublicClient(config)
  \/ \E i \in Slots, promptSlug \in ConcPromptSlugs, input \in ConcPromptInputs :
       Sequential(i) /\ runPrompt(i, promptSlug, input)
  \/ \E i \in Slots, feedback \in ConcCreateFeedbackArgs :
       Sequential(i) /\ createFeedback(i, feedback)
  \/ \E i \in Slots, id \in ConcFeedbackIds, update \in ConcUpdateFeedbackArgs :
       Sequential(i) /\ updateFeedback(i, id, update)
  \/ \E i \in Slots, response \in ConcResponses : FetchResolves(i, response)
  \/ \E i \in Slots, error \in ConcTransportErrors : FetchRejects(i, error)
  \/ \E i \in Slots : TimeoutFires(i)
  \/ \E i \in Slots, value \in ConcBodies : JsonResolves(i, value)
  \/ \E i \in Slots : JsonRejects(i)
  \/ Tick
  \/ \E i \in Slots : Release(i)

SpecEnv == Init /\ [][NextEnv]_vars

\* ------------------------------------------------------------------ claims
\* v is absent, empty or whitespace-only
Blank(v) == Falsy(v) \/ (v.t = "string" /\ Trim(v.s) = <<>>)

\* the validator returned a reason
Reason(r) == r.kind = "return" /\ r.v # Null

\* the arguments of invocation c fail validation
Rejected(c) ==
  CASE c.method = "runPrompt" -> Blank(c.promptSlug)
    [] c.method = "createFeedback" -> Reason(validateCreateFeedback(c.feedback))
    [] c.method = "updateFeedback" ->
         Blank(c.id) \/ Reason(validateUpdateFeedback(c.update))

\* the arguments of invocation c pass validation
Passes(c) ==
  CASE c.method = "runPrompt" -> ~Blank(c.promptSlug)
    [] c.method = "createFeedback" -> validateCreateFeedback(c.feedback) = Return(Null)
    [] c.method = "updateFeedback" ->
         ~Blank(c.id) /\ validateUpdateFeedback(c.update) = Return(Null)

\* the invocation of slot i has failed with a CobblError of the given code
FailedWith(i, code) ==
  /\ pc[i] = "done"
  /\ outcome[i].kind = "throw"
  /\ IsCobblError(outcome[i].e)
  /\ outcome[i].e.code = code

\* a completion is not a failure, or is a CobblError of the closed taxonomy
Typed(c) == c.kind = "throw" => (IsCobblError(c.e) /\ c.e.code \in CobblErrorCode)

\* the invocation of slot i has received a response and read its body
Answered(i) == pc[i] = "done" /\ resp[i] # None /\ parsed[i] # None

TableStatuses == {400, 401, 403, 404, 410, 429, 500, 502, 503, 504}

TableCode(status) ==
  CASE status = 400 -> "INVALID_REQUEST"
    [] status = 401 -> "UNAUTHORIZED"
    [] status = 403 -> "FORBIDDEN"
    [] status = 404 -> "NOT_FOUND"
    [] status = 410 -> "ARCHIVED"
    [] status = 429 -> "RATE_LIMIT_EXCEEDED"
    [] OTHER -> "SERVER_ERROR"

OperationLabel(c) ==
  CASE c.method = "runPrompt" -> "Failed to run prompt:"
    [] c.method = "createFeedback" -> "Failed to create feedback:"
    [] c.method = "updateFeedback" -> "Failed to update feedback:"

\* C1: an invocation whose arguments fail validation (blank or absent
\* promptSlug or id, or a payload for which the validator returns a reason)
\* fails at once with a CobblError of code INVALID_REQUEST, and the step
\* issues no request: the count of fetch calls is unchanged.
C1_FailFast ==
  [][\A i \in Slots :
       (pc[i] = "idle" /\ pc'[i] # "idle" /\ Rejected(call'[i]))
       => /\ pc'[i] = "done"
          /\ outcome'[i].kind = "throw"
          /\ IsCobblError(outcome'[i].e)
          /\ outcome'[i].e.code = "INVALID_REQUEST"
          /\ req'[i] = None
          /\ nReq'[i] = 0
          /\ fetchCount' = fetchCount]_vars

\* a createFeedback or updateFeedback with rejected arguments has failed
\* without a request, after an earlier call of the same client had fetched
C1_Witness ==
  \E i \in Slots :
    /\ FailedWith(i, "INVALID_REQUEST")
    /\ call[i].method \in {"createFeedback", "updateFeedback"}
    /\ Rejected(call[i])
    /\ nReq[i] = 0
    /\ fetchCount > 0

\* C2: whatever the arguments and whatever the server or the transport does,
\* a failing constructor call or method invocation reaches the caller as a
\* CobblError whose code is one of the ten codes; nothing else escapes.
C2_EveryFailureTyped ==
  /\ Typed(ctor)
  /\ \A i \in Slots : pc[i] = "done" => Typed(outcome[i])

\* C3: a non-success response whose body parses and whose status is in the
\* table makes the method fail with exactly the table's code, whatever the
\* parsed body value is.
C3_StatusTable ==
  \A i \in Slots :
    (/\ Answered(i)
     /\ resp[i].status \in TableStatuses
     /\ parsed[i].kind = "return")
    => FailedWith(i, TableCode(resp[i].status))

\* C4: a non-success response of any status whose body cannot be parsed makes
\* the call fail with code API_ERROR, message "HTTP {status}: {statusText}"
\* and details exactly {status}; the status table is not consulted.
C4_UnparseableBody ==
  \A i \in Slots :
    (Answered(i) /\ ~Ok(resp[i]) /\ parsed[i].kind = "throw")
    => outcome[i] =
         Throw([t |-> "error", name |-> "CobblError",
                message |-> <<"HTTP", " ", ToString(resp[i].status), ":", " ">>
                            \o resp[i].statusText,
                code |-> "API_ERROR",
                details |-> Obj([status |-> Num(resp[i].status)])])

\* an unparseable body on a status that has a table entry ended in API_ERROR
C4_Witness ==
  \E i \in Slots :
    /\ Answered(i)
    /\ resp[i].status \in {401, 500}
    /\ parsed[i].kind = "throw"
    /\ FailedWith(i, "API_ERROR")

\* C5: a non-success response whose status is not in the table and whose
\* body parses to an object gives code API_ERROR with details.status equal
\* to the HTTP status, whatever details the server supplied (absent, or an
\* object with any fields, also one named status).
C5_UnmappedStatusKept ==
  \A i \in Slots :
    (/\ Answered(i)
     /\ ~Ok(resp[i])
     /\ resp[i].status \notin TableStatuses
     /\ parsed[i].kind = "return"
     /\ parsed[i].v.t = "object")
    => /\ FailedWith(i, "API_ERROR")
       /\ Get(outcome[i].e.details, "status") = Num(resp[i].status)

\* C6: when fetch rejects before a response is obtained, the method fails
\* with code NETWORK_ERROR and message "Failed to {operation}: M", M being
\* the message of the underlying Error, or "Unknown error" when what was
\* thrown is not an Error.
C6_TransportWrapped ==
  \A i \in Slots :
    (pc[i] = "done" /\ rejected[i] # None)
    => outcome[i] =
         Throw([t |-> "error", name |-> "CobblError",
                message |-> <<OperationLabel(call[i]), " ">>
                            \o (IF rejected[i].t = "error" THEN rejected[i].message
                                ELSE <<"Unknown error">>),
                code |-> "NETWORK_ERROR",
                details |-> Undefined])

\* a rejection with a value that is not an Error has been wrapped
C6_Witness ==
  \E i \in Slots :
    /\ pc[i] = "done"
    /\ rejected[i] # None
    /\ rejected[i].t # "error"
    /\ FailedWith(i, "NETWORK_ERROR")

\* C7: an invocation for which the server returned a response, 2xx or not
\* and whatever its body, never ends in NETWORK_ERROR.
C7_NetworkErrorMeansNoResponse ==
  \A i \in Slots : (pc[i] = "done" /\ resp[i] # None) => ~FailedWith(i, "NETWORK_ERROR")

\* C8: a CobblError raised by the classifier inside the request section of a
\* method reaches the caller as the same error: same code, message, details.
C8_NoDoubleWrapping ==
  \A i \in Slots :
    (/\ Answered(i)
     /\ ~Ok(resp[i])
     /\ IsCobblError(handleErrorResponse(resp[i], parsed[i])))
    => outcome[i] = Throw(handleErrorResponse(resp[i], parsed[i]))

\* a classified error carrying server details reached the caller of createFeedback
C8_Witness ==
  \E i \in Slots :
    /\ Answered(i)
    /\ call[i].method = "createFeedback"
    /\ FailedWith(i, "FORBIDDEN")
    /\ outcome[i].e.details # Undefined

\* C9 as stated: every invocation that passes validation issues exactly one
\* HTTP request.
C9_ExactlyOneRequest ==
  \A i \in Slots : (pc[i] # "idle" /\ Passes(call[i])) => nReq[i] = 1

\* the request body of invocation c can be serialized
Serializable(c) == c.method = "runPrompt" => c.input # Cyclic

\* C9 amended: an invocation that passes validation issues exactly one HTTP
\* request when its body can be serialized and none when it cannot; no
\* invocation issues more than one; a settled invocation keeps its outcome
\* and issues no further request.
C9_OneRequestNoRetry ==
  /\ [](\A i \in Slots :
          /\ nReq[i] <= 1
          /\ (pc[i] # "idle" /\ Passes(call[i]))
             => nReq[i] = (IF Serializable(call[i]) THEN 1 ELSE 0))
  /\ [][\A i \in Slots :
          pc[i] = "done"
          => \/ pc'[i] = "idle"
             \/ (pc'[i] = "done" /\ outcome'[i] = outcome[i] /\ nReq'[i] = nReq[i])]_vars

\* an invocation has failed after its one request, on a failed response or
\* on a transport failure, and a later state still shows one request
C9_Witness ==
  \E i \in Slots :
    /\ pc[i] = "done"
    /\ Passes(call[i])
    /\ outcome[i].kind = "throw"
    /\ nReq[i] = 1
    /\ fetchCount = 1

\* C10: an invocation that passes validation no longer suspends its caller
\* once REQUEST_TIMEOUT_MS has elapsed, whatever the remote service does.
C10_BoundedLifetime ==
  \A i \in Slots : Suspended(i) => elapsed[i] <= REQUEST_TIMEOUT_MS

\* C11: when the timer of an invocation fires, the call is aborted and the
\* invocation fails with a CobblError of code NETWORK_ERROR; an invocation
\* whose timer has fired never shows a success or another code.
C11_TimeoutIsNetworkError ==
  /\ [](\A i \in Slots :
          timer[i] = "fired" => (aborted[i] /\ FailedWith(i, "NETWORK_ERROR")))
  /\ [][\A i \in Slots :
          (timer[i] = "pending" /\ timer'[i] = "fired")
          => /\ aborted'[i]
             /\ rejected'[i] = AbortError
             /\ pc'[i] = "done"
             /\ outcome'[i].kind = "throw"
             /\ IsCobblError(outcome'[i].e)
             /\ outcome'[i].e.code = "NETWORK_ERROR"]_vars

\* the timer of an invocation that passed validation has fired after
\* REQUEST_TIMEOUT_MS without a response, and the invocation has failed
C11_Witness ==
  \E i \in Slots :
    /\ timer[i] = "fired"
    /\ aborted[i]
    /\ resp[i] = None
    /\ nReq[i] = 1
    /\ FailedWith(i, "NETWORK_ERROR")

\* C12: once the HTTP call of an invocation has settled, with a response or
\* with a rejection, no timer of that invocation is pending, and an abort is
\* only ever triggered on a call that is still pending: an aborted
\* invocation has no response and its rejection is the abort itself.
C12_NoLeakedTimer ==
  /\ [](\A i \in Slots :
          /\ pc[i] # "fetch" => timer[i] # "pending"
          /\ aborted[i] => (resp[i] = None /\ rejected[i] = AbortError))
  /\ [][\A i \in Slots :
          (~aborted[i] /\ aborted'[i]) => (pc[i] = "fetch" /\ timer[i] = "pending")]_vars

\* the HTTP call of an invocation has settled with a response, its timer is
\* cleared, and REQUEST_TIMEOUT_MS passes during the body read with no abort
C12_Witness ==
  \E i \in Slots :
    /\ pc[i] = "json"
    /\ resp[i] # None
    /\ timer[i] = "cleared"
    /\ ~aborted[i]
    /\ elapsed[i] >= REQUEST_TIMEOUT_MS

\* what one invocation holds: its position, arguments, request, response,
\* timer, abort flag and outcome
SlotState(i) ==
  <<pc[i], call[i], req[i], resp[i], parsed[i], rejected[i], timer[i], aborted[i],
    outcome[i], nReq[i]>>

\* the outcome that the arguments and the answer of invocation i alone call for
OwnOutcome(i) ==
  IF req[i] = None
  THEN CASE call[i].method = "runPrompt" ->
              runPromptStart(client, call[i].promptSlug, call[i].input)
         [] call[i].method = "createFeedback" ->
              createFeedbackStart(client, call[i].feedback)
         [] call[i].method = "updateFeedback" ->
              updateFeedbackStart(client, call[i].id, call[i].update)
  ELSE IF rejected[i] # None THEN Throw(Catch(i, rejected[i]))
  ELSE Finish(i, parsed[i])

\* C13: with several invocations of one client in flight, a step that
\* changes one invocation (its start, response, failure, timeout or abort)
\* leaves the request, timer, abort flag and outcome of every other
\* invocation as they were, and each settled outcome is the one its own
\* arguments and its own answer call for.
C13_IndependentCalls ==
  /\ [](\A i \in Slots : pc[i] = "done" => outcome[i] = OwnOutcome(i))
  /\ [][\A i, j \in Slots :
          (i # j /\ SlotState(i)' # SlotState(i)) => SlotState(j)' = SlotState(j)]_vars

\* two invocations were in flight together: the timer of one has fired and
\* it has failed, the other is still pending with its own timer, not aborted
C13_Witness ==
  \E i, j \in Slots :
    /\ i # j
    /\ timer[i] = "fired"
    /\ FailedWith(i, "NETWORK_ERROR")
    /\ pc[j] = "fetch"
    /\ timer[j] = "pending"
    /\ ~aborted[j]
    /\ elapsed[j] > 0

\* what invocation c does up to its first await on a client cl
StartOn(cl, c) ==
  CASE c.method = "runPrompt" -> runPromptStart(cl, c.promptSlug, c.input)
    [] c.method = "createFeedback" -> createFeedbackStart(cl, c.feedback)
    [] c.method = "updateFeedback" -> updateFeedbackStart(cl, c.id, c.update)

\* C14: once constructed, the client's fields are left unchanged by every
\* step, whatever the outcomes of the invocations; so every invocation,
\* also one made after earlier invocations have failed or succeeded, issues
\* the request and reaches the outcome that the client as it left its
\* constructor gives for the same arguments and the same answer.
C14_StatelessClient ==
  /\ [][client # NoClient => client' = client]_vars
  /\ [](client # NoClient => ctor = Return(client))
  /\ [](\A i \in Slots :
          pc[i] # "idle"
          => LET s == StartOn(ctor.v, call[i]) IN
             /\ s.kind = "throw" => (req[i] = None /\ outcome[i] = s)
             /\ s.kind # "throw" => req[i] = s.request
             /\ (pc[i] = "done" /\ req[i] # None)
                => outcome[i] = (IF rejected[i] # None THEN Throw(Catch(i, rejected[i]))
                                 ELSE Finish(i, parsed[i])))

\* an invocation has settled on a client that is configured with its own
\* base URL and has made an earlier request
C14_Witness ==
  \E i \in Slots :
    /\ fetchCount = 2
    /\ pc[i] = "done"
    /\ nReq[i] = 1
    /\ client.baseUrl # DefaultBaseUrl
    /\ ctor = Return(client)

\* C15: constructing CobblAdminClient with a configuration whose apiKey is
\* absent, empty or whitespace-only fails with a CobblError of code
\* INVALID_CONFIG and message "API key is required" and produces no client;
\* with an apiKey that is non-blank after trimming it produces an admin
\* client holding that key.
C15_AdminRequiresApiKey ==
  [][\A config \in AdminConfigs \ {Undefined} :
       CobblAdminClient(config)
       => IF Blank(Get(config, "apiKey"))
          THEN /\ ctor'.kind = "throw"
               /\ IsCobblError(ctor'.e)
               /\ ctor'.e.code = "INVALID_CONFIG"
               /\ ctor'.e.message = <<"API key is required">>
               /\ client' = NoClient
          ELSE /\ ctor'.kind = "return"
               /\ client' = ctor'.v
               /\ client'.kind = "admin"
               /\ client'.apiKey = Get(config, "apiKey")]_vars

\* a construction has failed with INVALID_CONFIG and there is no client
C15_Witness ==
  /\ ctor.kind = "throw"
  /\ IsCobblError(ctor.e)
  /\ ctor.e.code = "INVALID_CONFIG"
  /\ client = NoClient

\* C16: runPrompt invoked with a promptSlug that is absent, empty or
\* whitespace-only fails, for every input, with a CobblError of code
\* INVALID_REQUEST whose message is exactly "promptSlug is required".
C16_RunPromptRequiresSlug ==
  \A i \in Slots :
    (pc[i] # "idle" /\ call[i].method = "runPrompt" /\ Blank(call[i].promptSlug))
    => /\ pc[i] = "done"
       /\ outcome[i].kind = "throw"
       /\ IsCobblError(outcome[i].e)
       /\ outcome[i].e.code = "INVALID_REQUEST"
       /\ outcome[i].e.message = <<"promptSlug is required">>

\* runPrompt was invoked with a whitespace-only slug and an input that
\* cannot be serialized, and has failed on the slug
C16_Witness ==
  \E i \in Slots :
    /\ pc[i] = "done"
    /\ call[i].method = "runPrompt"
    /\ call[i].promptSlug = Str(<<" ", "\t">>)
    /\ call[i].input = Cyclic
    /\ FailedWith(i, "INVALID_REQUEST")

\* a create-feedback request as its type describes it: an object whose
\* userFeedback is absent or a string
FeedbackRequest(f) ==
  /\ f.t = "object"
  /\ Get(f, "userFeedback").t \in {"undefined", "string"}

\* the four rules of a create-feedback request in their stated order, each
\* with the reason given when it is violated
CreateRules(f) ==
  LET runId == Get(f, "runId")
      helpful == Get(f, "helpful")
      userFeedback == Get(f, "userFeedback")
  IN <<[violated |-> Blank(runId),
        reason |-> "runId is required"],
       [violated |-> helpful # Undefined
                     /\ helpful \notin {Str(<<"helpful">>), Str(<<"not_helpful">>)},
        reason |-> "helpful must be \"helpful\" or \"not_helpful\""],
       [violated |-> userFeedback # Undefined /\ Trim(userFeedback.s) = <<>>,
        reason |-> "userFeedback cannot be empty"],
       [violated |-> helpful = Undefined /\ userFeedback = Undefined,
        reason |-> "At least one of helpful or userFeedback is required"]>>

\* the reason of the first violated rule, or null when none is violated
FirstViolated(rules) ==
  LET broken == {k \in DOMAIN rules : rules[k].violated} IN
  IF broken = {} THEN Null
  ELSE Str(<<rules[CHOOSE k \in broken : \A m \in broken : k <= m].reason>>)

C18_UpdateEqualsCreateMinusRunId ==
  \A i \in Slots :
    (pc[i] # "idle" /\ call[i].method = "createFeedback"
       /\ call[i].feedback.t = "object"
       /\ ~Blank(Get(call[i].feedback, "runId")))
    => LET f == call[i].feedback IN
       validateUpdateFeedback(Obj([helpful |-> Get(f, "helpful"),
                                   userFeedback |-> Get(f, "userFeedback")]))
       = validateCreateFeedback(f)

\* createFeedback was invoked with a non-blank runId and neither helpful nor
\* userFeedback, and has been rejected by the at-least-one rule
C18_Witness ==
  \E i \in Slots :
    /\ pc[i] = "done"
    /\ call[i].method = "createFeedback"
    /\ call[i].feedback.t = "object"
    /\ ~Blank(Get(call[i].feedback, "runId"))
    /\ Get(call[i].feedback, "helpful") = Undefined
    /\ Get(call[i].feedback, "userFeedback") = Undefined
    /\ FailedWith(i, "INVALID_REQUEST")
    /\ outcome[i].e.message = <<"At least one of helpful or userFeedback is required">>

\* the keys a serialized feedback body may hold for the fields helpful and
\* userFeedback of the payload p: those that are present in p
ProvidedKeys(p) ==
  {k \in {"helpful", "userFeedback"} : Get(p, k) # Undefined}

\* C19: for every request that passes validation, createFeedback issues
\* POST {baseUrl}/public/v1/feedback whose serialized body holds runId
\* trimmed, helpful as given and userFeedback trimmed, with a key for helpful
\* or userFeedback only when that field is present in the request, and no
\* null member.
C19_CreateFeedbackWireBody ==
  \A i \in Slots :
    (pc[i] # "idle" /\ call[i].method = "createFeedback" /\ Passes(call[i]))
    => LET f == call[i].feedback IN
       /\ req[i] # None
       /\ req[i].method = "POST"
       /\ req[i].url = client.baseUrl.s \o <<"/public/v1/feedback">>
       /\ req[i].body.t = "json"
       /\ DOMAIN req[i].body.o = {"runId"} \cup ProvidedKeys(f)
       /\ req[i].body.o["runId"] = Str(Trim(Get(f, "runId").s))
       /\ "helpful" \in ProvidedKeys(f) => req[i].body.o["helpful"] = Get(f, "helpful")
       /\ "userFeedback" \in ProvidedKeys(f)
          => req[i].body.o["userFeedback"] = Str(Trim(Get(f, "userFeedback").s))
       /\ \A k \in DOMAIN req[i].body.o : ~IsNullish(req[i].body.o[k])

\* createFeedback has issued its request for a valid payload with a padded
\* runId, no helpful and a padded userFeedback: the body has two keys
C19_Witness ==
  \E i \in Slots :
    /\ pc[i] = "fetch"
    /\ call[i].method = "createFeedback"
    /\ call[i].feedback = Obj([runId |-> Str(<<" ", "run-123", " ">>),
                               helpful |-> Undefined,
                               userFeedback |-> Str(<<" ", "Too", " ", "formal", " ">>)])
    /\ DOMAIN req[i].body.o = {"runId", "userFeedback"}
    /\ req[i].body.o["userFeedback"] = Str(<<"Too", " ", "formal">>)

\* C20: updateFeedback checks id before the payload: with an id that is
\* absent, empty or whitespace-only it fails, for every payload, valid or
\* not, with a CobblError of code INVALID_REQUEST and message "id is
\* required"; with a non-blank id and a valid payload it issues
\* PATCH {baseUrl}/public/v1/feedback/{id trimmed} whose body holds only the
\* fields the payload provides, userFeedback trimmed.
C20_UpdateFeedbackOrderAndRequest ==
  \A i \in Slots :
    (pc[i] # "idle" /\ call[i].method = "updateFeedback")
    => LET id == call[i].id
           u == call[i].update
       IN /\ Blank(id)
             => /\ FailedWith(i, "INVALID_REQUEST")
                /\ outcome[i].e.message = <<"id is required">>
                /\ req[i] = None
          /\ (~Blank(id) /\ validateUpdateFeedback(u) = Return(Null))
             => /\ req[i] # None
                /\ req[i].method = "PATCH"
                /\ req[i].url = client.baseUrl.s \o <<"/public/v1/feedback/">> \o Trim(id.s)
                /\ req[i].body.t = "json"
                /\ DOMAIN req[i].body.o = ProvidedKeys(u)
                /\ "helpful" \in ProvidedKeys(u)
                   => req[i].body.o["helpful"] = Get(u, "helpful")
                /\ "userFeedback" \in ProvidedKeys(u)
                   => req[i].body.o["userFeedback"] = Str(Trim(Get(u, "userFeedback").s))

\* updateFeedback was invoked with a whitespace-only id and a payload that
\* the validator rejects, and has failed on the id
C20_Witness ==
  \E i \in Slots :
    /\ pc[i] = "done"
    /\ call[i].method = "updateFeedback"
    /\ call[i].id = Str(<<" ", "\t">>)
    /\ Reason(validateUpdateFeedback(call[i].update))
    /\ FailedWith(i, "INVALID_REQUEST")
    /\ outcome[i].e.message = <<"id is required">>

\* the request of invocation i is POST {baseUrl}/admin/v1/prompt/run, the
\* URL being the plain concatenation, with body {promptSlug trimmed, input as
\* given}, the body a slug without the surrounding whitespace gives too
RunPromptRequestShape(i) ==
  LET slug == call[i].promptSlug
      bare == runPromptStart(client, Str(Trim(slug.s)), call[i].input)
  IN /\ req[i] # None
     /\ req[i].method = "POST"
     /\ req[i].url = client.baseUrl.s \o <<"/admin/v1/prompt/run">>
     /\ req[i].body.t = "json"
     /\ DOMAIN req[i].body.o = {"promptSlug", "input"}
     /\ req[i].body.o["promptSlug"] = Str(Trim(slug.s))
     /\ req[i].body.o["input"] = call[i].input
     /\ bare.kind = "await"
     /\ bare.request.body = req[i].body

\* C21 as stated: for every non-blank promptSlug and every input, runPrompt
\* issues POST {baseUrl}/admin/v1/prompt/run with body {promptSlug trimmed,
\* input unchanged}.
C21_RunPromptRequest ==
  \A i \in Slots :
    (pc[i] # "idle" /\ call[i].method = "runPrompt" /\ ~Blank(call[i].promptSlug))
    => RunPromptRequestShape(i)

\* C21 amended: for every non-blank promptSlug and every input that can be
\* serialized, runPrompt issues POST {baseUrl}/admin/v1/prompt/run with body
\* {promptSlug trimmed, input unchanged}, the same body with and without
\* whitespace around the slug; for an input that cannot be serialized it
\* issues no request.
C21_RunPromptRequestSerializable ==
  \A i \in Slots :
    (pc[i] # "idle" /\ call[i].method = "runPrompt" /\ ~Blank(call[i].promptSlug))
    => IF Serializable(call[i]) THEN RunPromptRequestShape(i) ELSE req[i] = None

\* runPrompt has issued its request for a slug given with surrounding
\* whitespace and a non-empty input, on a client with its own base URL
C21_Witness ==
  \E i \in Slots :
    /\ pc[i] = "fetch"
    /\ call[i].method = "runPrompt"
    /\ call[i].promptSlug = Str(<<" ", "sales_summary", " ">>)
    /\ call[i].input = Obj([topic |-> Str(<<"Q4", " ", "Results">>)])
    /\ client.baseUrl # DefaultBaseUrl
    /\ req[i].body.o["promptSlug"] = Str(<<"sales_summary">>)

\* the fields of the result of invocation c
ResultFields(c) ==
  IF c.method = "runPrompt"
  THEN {"runId", "output", "tokenUsage", "renderedPrompt", "promptVersion"}
  ELSE {"id", "message"}

\* C22: for every 2xx response whose body is a record holding the fields of
\* the method's result (runId, output, tokenUsage, renderedPrompt and
\* promptVersion for runPrompt; id and message for createFeedback and
\* updateFeedback), the method returns a record of exactly those fields,
\* each equal to the body's field.
C22_SuccessRoundTrip ==
  \A i \in Slots :
    (/\ Answered(i)
     /\ Ok(resp[i])
     /\ parsed[i].kind = "return"
     /\ parsed[i].v.t = "object"
     /\ ResultFields(call[i]) \subseteq DOMAIN parsed[i].v.o)
    => outcome[i] = Return(Obj([f \in ResultFields(call[i]) |-> parsed[i].v.o[f]]))

\* runPrompt has returned on a 200 response whose body holds the five fields
C22_Witness ==
  \E i \in Slots :
    /\ Answered(i)
    /\ call[i].method = "runPrompt"
    /\ resp[i].status = 200
    /\ parsed[i].kind = "return"
    /\ parsed[i].v.t = "object"
    /\ ResultFields(call[i]) \subseteq DOMAIN parsed[i].v.o
    /\ outcome[i].kind = "return"
    /\ Get(outcome[i].v, "tokenUsage") = Get(parsed[i].v, "tokenUsage")

\* the base URL a configuration resolves to: the default origin when its
\* baseUrl is absent, empty or whitespace-only, else the trimmed value
ResolvedBaseUrl(config) ==
  LET b == Get(config, "baseUrl") IN
  IF Blank(b) THEN Str(<<"https://api.cobbl.ai">>) ELSE Str(Trim(b.s))

C24_AuthenticationHeaders ==
  /\ [](\A i \in Slots :
          req[i] # None
          => /\ req[i].headers["Content-Type"] = <<"application/json">>
             /\ IF client.kind = "admin"
                THEN /\ DOMAIN req[i].headers = {"Content-Type", "Authorization"}
                     /\ req[i].headers["Authorization"]
                        = <<"Bearer", " ">> \o client.apiKey.s
                ELSE /\ client.kind = "public"
                     /\ DOMAIN req[i].headers = {"Content-Type"})
  /\ [][\A config \in PublicConfigs :
          (CobblPublicClient(config) /\ client' # NoClient)
          => DOMAIN client' = {"kind", "baseUrl"}]_vars

\* a public client has a request in flight that carries Content-Type only
C24_Witness ==
  \E i \in Slots :
    /\ pc[i] = "fetch"
    /\ client.kind = "public"
    /\ DOMAIN req[i].headers = {"Content-Type"}

\* the message the body of a failed response calls for: its field error if
\* present, else its field message, else "Unknown error"
BodyMessage(body) ==
  IF Get(body, "error") # Undefined THEN StringOf(Get(body, "error"))
  ELSE IF Get(body, "message") # Undefined THEN StringOf(Get(body, "message"))
  ELSE <<"Unknown error">>

\* C25: for every non-success response whose body was parsed, the error's
\* message is the body's field error if present, else its field message,
\* else "Unknown error"; for the statuses of the table the error's details
\* is the body's field details, absent when the body has none.
C25_MessageAndDetails ==
  \A i \in Slots :
    (Answered(i) /\ ~Ok(resp[i]) /\ parsed[i].kind = "return")
    => /\ outcome[i].kind = "throw"
       /\ outcome[i].e.message = BodyMessage(parsed[i].v)
       /\ resp[i].status \in TableStatuses
          => outcome[i].e.details = Get(parsed[i].v, "details")

\* C26: toJSON of a CobblError is the plain record {name, message, code,
\* details} with name "CobblError" and the message, code and details the
\* error was constructed with, details undefined when none was given: so for
\* the error of a failed construction {"API key is required",
\* INVALID_CONFIG, undefined}, for the error of a rejected argument
\* {reason, INVALID_REQUEST, undefined}, and for the error of a failed
\* response the details the classifier passed.
C26_ErrorSerialization ==
  /\ (ctor.kind = "throw" /\ IsCobblError(ctor.e))
     => toJSON(ctor.e) = [name |-> "CobblError", message |-> <<"API key is required">>,
                          code |-> "INVALID_CONFIG", details |-> Undefined]
  /\ \A i \in Slots :
       (pc[i] = "done" /\ outcome[i].kind = "throw" /\ IsCobblError(outcome[i].e))
       => LET e == outcome[i].e
              j == toJSON(e)
          IN /\ DOMAIN j = {"name", "message", "code", "details"}
             /\ j.name = "CobblError"
             /\ j.message = e.message
             /\ j.code = e.code
             /\ j.details = e.details
             /\ Rejected(call[i]) => (j.code = "INVALID_REQUEST" /\ j.details = Undefined)
             /\ (call[i].method = "runPrompt" /\ Blank(call[i].promptSlug))
                => j = [name |-> "CobblError", message |-> <<"promptSlug is required">>,
                        code |-> "INVALID_REQUEST", details |-> Undefined]
             /\ (Answered(i) /\ resp[i].status \in TableStatuses
                   /\ parsed[i].kind = "return" /\ parsed[i].v.t = "object")
                => j.details = Get(parsed[i].v, "details")

\* an invocation has failed on a response whose body carries details, and
\* the serialized error holds them
C26_Witness ==
  \E i \in Slots :
    /\ Answered(i)
    /\ outcome[i].kind = "throw"
    /\ IsCobblError(outcome[i].e)
    /\ outcome[i].e.details.t = "object"
    /\ toJSON(outcome[i].e).details = Get(parsed[i].v, "details")
    /\ toJSON(outcome[i].e).code = "INVALID_REQUEST"

\* C27: an invocation that received a response with a non-success status
\* never returns a value to its caller, whatever the body of the response
\* is or whether it can be parsed: it fails with a CobblError.
C27_FailedResponseNeverSuccess ==
  \A i \in Slots :
    (pc[i] = "done" /\ resp[i] # None /\ ~Ok(resp[i]))
    => /\ outcome[i].kind = "throw"
       /\ IsCobblError(outcome[i].e)

\* runPrompt received a 500 response whose body has the fields of a
\* successful result, and has failed
C27_Witness ==
  \E i \in Slots :
    /\ Answered(i)
    /\ call[i].method = "runPrompt"
    /\ resp[i].status = 500
    /\ parsed[i].kind = "return"
    /\ Get(parsed[i].v, "runId") = Str(<<"run-123">>)
    /\ outcome[i].kind = "throw"

\* v is a string that is non-empty and has no whitespace at either end
Tidy(v) ==
  /\ v.t = "string"
  /\ v.s # <<>>
  /\ v.s[1] \notin WS
  /\ v.s[Len(v.s)] \notin WS

\* C28: every body that createFeedback or updateFeedback hands to fetch has
\* at least one of helpful and userFeedback, a helpful (if present) equal to
\* "helpful" or "not_helpful", and a userFeedback (if present) that is
\* non-empty with no whitespace at either end; every createFeedback body
\* has a runId that is non-empty with no whitespace at either end.
C28_FeedbackWireInvariant ==
  \A i \in Slots :
    (req[i] # None /\ call[i].method \in {"createFeedback", "updateFeedback"})
    => LET b == req[i].body.o IN
       /\ req[i].body.t = "json"
       /\ {"helpful", "userFeedback"} \cap DOMAIN b # {}
       /\ "helpful" \in DOMAIN b
          => b["helpful"] \in {Str(<<"helpful">>), Str(<<"not_helpful">>)}
       /\ "userFeedback" \in DOMAIN b => Tidy(b["userFeedback"])
       /\ call[i].method = "createFeedback"
          => ("runId" \in DOMAIN b /\ Tidy(b["runId"]))

\* updateFeedback has issued a request whose body holds userFeedback alone,
\* given by the caller with whitespace around it
C28_Witness ==
  \E i \in Slots :
    /\ pc[i] = "fetch"
    /\ call[i].method = "updateFeedback"
    /\ Get(call[i].update, "userFeedback") = Str(<<" ", "Too", " ", "formal", " ">>)
    /\ DOMAIN req[i].body.o = {"userFeedback"}
    /\ Tidy(req[i].body.o["userFeedback"])

\* C29: the admin constructor stores the apiKey exactly as configured,
\* whitespace at its ends included, and the Authorization header of every
\* request is "Bearer " followed by that string; the base URL, by contrast,
\* is stored trimmed.
C29_ApiKeyVerbatim ==
  /\ [][\A config \in AdminConfigs \ {Undefined} :
          (CobblAdminClient(config) /\ client' # NoClient)
          => /\ client'.apiKey = Get(config, "apiKey")
             /\ client'.baseUrl = ResolvedBaseUrl(config)]_vars
  /\ [](\A i \in Slots :
          (req[i] # None /\ client.kind = "admin")
          => /\ client = ctor.v
             /\ req[i].headers["Authorization"] = <<"Bearer", " ">> \o ctor.v.apiKey.s)

\* a client configured with a key that starts with a space has a request in
\* flight whose Authorization header holds the key with that space
C29_Witness ==
  \E i \in Slots :
    /\ pc[i] = "fetch"
    /\ client.kind = "admin"
    /\ client.apiKey = Str(<<" ", "sk-key">>)
    /\ req[i].headers["Authorization"] = <<"Bearer", " ", " ", "sk-key">>

\* C30: the objects a caller passes are left as they were: the step that
\* starts createFeedback, updateFeedback or runPrompt leaves the request
\* object, the update object and the input mapping with the fields and the
\* untrimmed values they were passed with, and no later step of the
\* invocation, successful or failing, changes them.
C30_ArgumentsNotModified ==
  [][\A i \in Slots :
       /\ (pc[i] = "idle" /\ pc'[i] # "idle")
          => /\ \A feedback \in CreateFeedbackArgs :
                  createFeedback(i, feedback) => call'[i].feedback = feedback
             /\ \A id \in FeedbackIds, update \in UpdateFeedbackArgs :
                  updateFeedback(i, id, update)
                  => (call'[i].id = id /\ call'[i].update = update)
             /\ \A promptSlug \in PromptSlugs, input \in PromptInputs :
                  runPrompt(i, promptSlug, input)
                  => (call'[i].promptSlug = promptSlug /\ call'[i].input = input)
       /\ (pc[i] # "idle" /\ pc'[i] # "idle") => call'[i] = call[i]]_vars

\* createFeedback has returned for a request given with whitespace around
\* runId and userFeedback: the request object still holds the untrimmed
\* values, the body that was sent holds the trimmed ones
C30_Witness ==
  \E i \in Slots :
    /\ Answered(i)
    /\ outcome[i].kind = "return"
    /\ call[i].method = "createFeedback"
    /\ Get(call[i].feedback, "runId") = Str(<<" ", "run-123", " ">>)
    /\ Get(call[i].feedback, "userFeedback") = Str(<<" ", "Too", " ", "formal", " ">>)
    /\ req[i].body.o["runId"] = Str(<<"run-123">>)

====
